---- MODULE Spec2Model ----
(***************************************************************************)
(* Desk-assignment planning core: instance validation and loading          *)
(* (read_instances.py), derived indices (precalculos.py) and the report    *)
(* assembler with its isolation count (build_excel.py).                    *)
(*                                                                         *)
(* Python values.  An identifier is a TLA+ string.  A container is a       *)
(* record [kind, items]: a list holds a sequence of atoms, a dict holds    *)
(* its (key, value) pairs in insertion order as records [k, v], and a      *)
(* value that is neither (a JSON number) has kind "int" and no items.      *)
(* PyInt stands for a number found where a string is expected.             *)
(***************************************************************************)
EXTENDS Integers, Sequences, FiniteSets, TLC

VARIABLES pc, data, strict, errors, exc, inst, pre,
          assignments, df_assign, group_meeting_day, schedule_by_employee, out

vars == <<pc, data, strict, errors, exc, inst, pre,
          assignments, df_assign, group_meeting_day, schedule_by_employee, out>>

\* ------------------------------------------------------------------------
\* Values and small helpers
\* ------------------------------------------------------------------------

PyInt == "<int>"
IsStr(x) == x # PyInt

List(s) == [kind |-> "list", items |-> s]
Dict(s) == [kind |-> "dict", items |-> s]
Number == [kind |-> "int", items |-> <<>>]
Pair(key, value) == [k |-> key, v |-> value]

None == <<>>
Some(x) == <<x>>

SeqToSet(s) == {s[i] : i \in DOMAIN s}

\* the concatenation of Op(s[1]), Op(s[2]), ... : a for loop appending to one list
FlatMap(Op(_), s) ==
    LET F[i \in 0..Len(s)] == IF i = 0 THEN <<>> ELSE F[i - 1] \o Op(s[i])
    IN  F[Len(s)]

\* sum(s) of a sequence of numbers
RECURSIVE SumSeq(_)
SumSeq(s) == IF s = <<>> THEN 0 ELSE Head(s) + SumSeq(Tail(s))

\* the sum of f over the set S
RECURSIVE SumOver(_, _)
SumOver(S, f) ==
    IF S = {} THEN 0
    ELSE LET x == CHOOSE y \in S : TRUE IN f[x] + SumOver(S \ {x}, f)

\* dict views: m is a sequence of pairs with distinct keys
Keys(m) == {m[i].k : i \in DOMAIN m}
Get(m, key) == (CHOOSE i \in DOMAIN m : m[i].k = key)
Lookup(m, key) == m[Get(m, key)].v

\* ------------------------------------------------------------------------
\* read_instances.py: validate_instance_dict
\* ------------------------------------------------------------------------

REQUIRED_KEYS ==
    <<"Employees", "Desks", "Days", "Groups", "Zones",
      "Desks_Z", "Desks_E", "Employees_G", "Days_E">>

IdentityKeys == <<"Employees", "Desks", "Days", "Groups", "Zones">>
MappingKeys == <<"Desks_Z", "Desks_E", "Employees_G", "Days_E">>

\* len(seq) == len(set(seq)); a dict is always unique in its keys
_unique(seq) ==
    IF seq.kind = "list"
    THEN Len(seq.items) = Cardinality(SeqToSet(seq.items))
    ELSE TRUE

\* len() of a number raises TypeError
UniqueRaises(d) == \E i \in DOMAIN IdentityKeys : d[IdentityKeys[i]].kind = "int"

\* lines 113-115: one message per missing key, in REQUIRED_KEYS order
KeyErrorsFirstOnly(d) ==
    LET missing == {i \in DOMAIN REQUIRED_KEYS : REQUIRED_KEYS[i] \notin DOMAIN d}
    IN  IF missing = {} THEN <<>>
        ELSE <<(<<"Missing key", REQUIRED_KEYS[CHOOSE i \in missing : \A j \in missing : i <= j]>>)>>

KeyErrors(d) ==
    FlatMap(LAMBDA k : IF k \notin DOMAIN d THEN <<(<<"Missing key", k>>)>> ELSE <<>>,
            REQUIRED_KEYS)

_expect_list_of_str(d, key) ==
    IF d[key].kind # "list" \/ \E i \in DOMAIN d[key].items : ~IsStr(d[key].items[i])
    THEN <<(<<"must be a list[str]", key>>)>>
    ELSE <<>>

BasicTypeErrors(d) == FlatMap(LAMBDA key : _expect_list_of_str(d, key), IdentityKeys)

UniquenessErrors(d) ==
    FlatMap(LAMBDA key : IF ~_unique(d[key]) THEN <<(<<"values must be unique", key>>)>> ELSE <<>>,
            IdentityKeys)

_expect_dict_of_list_str(d, key) ==
    IF d[key].kind # "dict"
    THEN <<(<<"must be a dict", key>>)>>
    ELSE IF \E i \in DOMAIN d[key].items :
                LET p == d[key].items[i]
                IN  \/ ~IsStr(p.k)
                    \/ p.v.kind # "list"
                    \/ \E j \in DOMAIN p.v.items : ~IsStr(p.v.items[j])
         THEN <<(<<"must map str -> list[str]", key>>)>>
         ELSE <<>>

DictErrors(d) == FlatMap(LAMBDA key : _expect_dict_of_list_str(d, key), MappingKeys)

\* line 146: "if errors: return errors" after the type, uniqueness and shape checks
ShapeGateOpen(errs) == FALSE
ShapeGate(errs) == errs # <<>>

\* lines 156-165.  The inner loop over one zone's desks threads seen_desks.
RECURSIVE DesksOfZoneErrors(_, _, _, _, _)
DesksOfZoneErrors(desks, z, ds, i, seen) ==
    IF i > Len(ds) THEN [errs |-> <<>>, seen |-> seen]
    ELSE LET d == ds[i]
             e1 == IF d \notin desks
                   THEN <<(<<"desk in Desks_Z not declared", d, z>>)>> ELSE <<>>
             e2 == IF d \in seen
                   THEN <<(<<"desk appears in multiple zones", d>>)>> ELSE <<>>
             rest == DesksOfZoneErrors(desks, z, ds, i + 1, seen \cup {d})
         IN  [errs |-> e1 \o e2 \o rest.errs, seen |-> rest.seen]

RECURSIVE DesksZLoop(_, _, _, _, _)
DesksZLoop(zones, desks, m, i, seen) ==
    IF i > Len(m) THEN <<>>
    ELSE LET z == m[i].k
             e0 == IF z \notin zones
                   THEN <<(<<"zone in Desks_Z not declared", z>>)>> ELSE <<>>
             inner == DesksOfZoneErrors(desks, z, m[i].v.items, 1, seen)
         IN  e0 \o inner.errs \o DesksZLoop(zones, desks, m, i + 1, inner.seen)

\* the same loop with seen_desks emptied at every zone
RECURSIVE DesksZLoopSeenPerZone(_, _, _, _, _)
DesksZLoopSeenPerZone(zones, desks, m, i, seen) ==
    IF i > Len(m) THEN <<>>
    ELSE LET z == m[i].k
             e0 == IF z \notin zones
                   THEN <<(<<"zone in Desks_Z not declared", z>>)>> ELSE <<>>
             inner == DesksOfZoneErrors(desks, z, m[i].v.items, 1, {})
         IN  e0 \o inner.errs \o DesksZLoopSeenPerZone(zones, desks, m, i + 1, {})

DesksZErrorsSeenPerZone(d) ==
    DesksZLoopSeenPerZone(SeqToSet(d["Zones"].items), SeqToSet(d["Desks"].items),
                          d["Desks_Z"].items, 1, {})

DesksZErrors(d) ==
    DesksZLoop(SeqToSet(d["Zones"].items), SeqToSet(d["Desks"].items),
               d["Desks_Z"].items, 1, {})

\* lines 168-173
DesksEErrors(d) ==
    LET employees == SeqToSet(d["Employees"].items)
        desks == SeqToSet(d["Desks"].items)
    IN  FlatMap(LAMBDA p :
                  (IF p.k \notin employees
                   THEN <<(<<"employee in Desks_E not declared", p.k>>)>> ELSE <<>>)
                  \o FlatMap(LAMBDA x : IF x \notin desks
                                        THEN <<(<<"desk in Desks_E not declared", x, p.k>>)>>
                                        ELSE <<>>,
                             p.v.items),
                d["Desks_E"].items)

\* lines 176-185
RECURSIVE EmployeesOfGroupErrors(_, _, _, _, _)
EmployeesOfGroupErrors(employees, g, es, i, seen) ==
    IF i > Len(es) THEN [errs |-> <<>>, seen |-> seen]
    ELSE LET e == es[i]
             e1 == IF e \notin employees
                   THEN <<(<<"employee in Employees_G not declared", e, g>>)>> ELSE <<>>
             e2 == IF e \in seen
                   THEN <<(<<"employee appears in multiple groups", e>>)>> ELSE <<>>
             rest == EmployeesOfGroupErrors(employees, g, es, i + 1, seen \cup {e})
         IN  [errs |-> e1 \o e2 \o rest.errs, seen |-> rest.seen]

RECURSIVE EmployeesGLoop(_, _, _, _, _)
EmployeesGLoop(groups, employees, m, i, seen) ==
    IF i > Len(m) THEN <<>>
    ELSE LET g == m[i].k
             e0 == IF g \notin groups
                   THEN <<(<<"group in Employees_G not declared", g>>)>> ELSE <<>>
             inner == EmployeesOfGroupErrors(employees, g, m[i].v.items, 1, seen)
         IN  e0 \o inner.errs \o EmployeesGLoop(groups, employees, m, i + 1, inner.seen)

EmployeesGErrors(d) ==
    EmployeesGLoop(SeqToSet(d["Groups"].items), SeqToSet(d["Employees"].items),
                   d["Employees_G"].items, 1, {})

\* lines 188-193
DaysEErrors(d) ==
    LET employees == SeqToSet(d["Employees"].items)
        days == SeqToSet(d["Days"].items)
    IN  FlatMap(LAMBDA p :
                  (IF p.k \notin employees
                   THEN <<(<<"employee in Days_E not declared", p.k>>)>> ELSE <<>>)
                  \o FlatMap(LAMBDA x : IF x \notin days
                                        THEN <<(<<"day in Days_E not declared", x, p.k>>)>>
                                        ELSE <<>>,
                             p.v.items),
                d["Days_E"].items)

ReferentialErrors(d) ==
    DesksZErrors(d) \o DesksEErrors(d) \o EmployeesGErrors(d) \o DaysEErrors(d)

Returned(errs) == [exc |-> "none", errors |-> errs]
Raised(type) == [exc |-> type, errors |-> <<>>]

\* the whole validator: a returned error list, or the TypeError that escapes _unique
validate_instance_dict(d) ==
    LET keyErrs == KeyErrors(d)
    IN  IF keyErrs # <<>> THEN Returned(keyErrs)
        ELSE IF UniqueRaises(d) THEN Raised("TypeError")
        ELSE LET shapeErrs == BasicTypeErrors(d) \o UniquenessErrors(d) \o DictErrors(d)
             IN  IF ShapeGate(shapeErrs) THEN Returned(shapeErrs)
                 ELSE Returned(shapeErrs \o ReferentialErrors(d))

\* ------------------------------------------------------------------------
\* read_instances.py: build_reverse_indices, load_instance
\* ------------------------------------------------------------------------

\* list(data.get(key, [])) and dict(data.get(key, {})): a number is not iterable
GetOrEmpty(d, key) == IF key \in DOMAIN d THEN d[key].items ELSE <<>>
ConstructRaises(d) == \E key \in DOMAIN d : d[key].kind = "int"

\* for owner, xs in mapping.items(): for x in xs: index[x] = owner   (last write wins)
ReverseIndexSwapped(m) ==
    [o \in {m[i].k : i \in {j \in DOMAIN m : m[j].v.items # <<>>}} |->
        LET xs == Lookup(m, o).items IN xs[Len(xs)]]

ReverseIndex(m) ==
    LET flat == FlatMap(LAMBDA p : [j \in DOMAIN p.v.items |-> <<p.v.items[j], p.k>>], m)
        last(x) == CHOOSE i \in DOMAIN flat :
                       /\ flat[i][1] = x
                       /\ \A j \in DOMAIN flat : flat[j][1] = x => j <= i
    IN  [x \in {flat[i][1] : i \in DOMAIN flat} |-> flat[last(x)][2]]

\* iterating a mapping value that is a number raises TypeError
ReverseIndexRaises(m) == \E i \in DOMAIN m : m[i].v.kind = "int"

ProblemInstance(d) ==
    [employees |-> GetOrEmpty(d, "Employees"),
     desks |-> GetOrEmpty(d, "Desks"),
     days |-> GetOrEmpty(d, "Days"),
     groups |-> GetOrEmpty(d, "Groups"),
     zones |-> GetOrEmpty(d, "Zones"),
     desks_by_zone |-> GetOrEmpty(d, "Desks_Z"),
     desks_by_employee |-> GetOrEmpty(d, "Desks_E"),
     employees_by_group |-> GetOrEmpty(d, "Employees_G"),
     days_by_employee |-> GetOrEmpty(d, "Days_E"),
     _summary |-> None]

build_reverse_indices(i) ==
    [employees |-> i.employees, desks |-> i.desks, days |-> i.days,
     groups |-> i.groups, zones |-> i.zones,
     desks_by_zone |-> i.desks_by_zone,
     desks_by_employee |-> i.desks_by_employee,
     employees_by_group |-> i.employees_by_group,
     days_by_employee |-> i.days_by_employee,
     zone_of_desk |-> ReverseIndex(i.desks_by_zone),
     group_of_employee |-> ReverseIndex(i.employees_by_group),
     _summary |-> i._summary]

\* ProblemInstance.summary(): the counts, computed on the first call and cached
summary(i) ==
    IF i._summary = None
    THEN [i EXCEPT !._summary = Some([n_employees |-> Len(i.employees),
                                      n_desks |-> Len(i.desks),
                                      n_days |-> Len(i.days),
                                      n_groups |-> Len(i.groups),
                                      n_zones |-> Len(i.zones)])]
    ELSE i

\* "Invalid instance:\n- " + "\n- ".join(errors): the header line, then one line per message
InvalidInstanceMessageFirstOnly(errs) == <<(<<"Invalid instance:">>), errs[1]>>
InvalidInstanceMessage(errs) == <<(<<"Invalid instance:">>)>> \o errs

\* an exception: its type, the function whose code raised it, and its message lines
NoExc == [type |-> "none", at |-> "", message |-> <<>>]
Exc(type, at, message) == [type |-> type, at |-> at, message |-> message]

\* [exc, errors, inst]: the exception raised, if any, or the model built
load_instance(d, s) ==
    LET v == validate_instance_dict(d)
    IN  IF v.exc # "none"
        THEN [exc |-> Exc(v.exc, "validate_instance_dict", <<>>),
              errors |-> <<>>, inst |-> None]
        ELSE IF v.errors # <<>> /\ s
        THEN [exc |-> Exc("ValueError", "load_instance", InvalidInstanceMessage(v.errors)),
              errors |-> v.errors, inst |-> None]
        ELSE IF ConstructRaises(d)
                \/ ReverseIndexRaises(GetOrEmpty(d, "Desks_Z"))
                \/ ReverseIndexRaises(GetOrEmpty(d, "Employees_G"))
        THEN [exc |-> Exc("TypeError", "load_instance", <<>>),
              errors |-> v.errors, inst |-> None]
        ELSE [exc |-> NoExc, errors |-> v.errors,
              inst |-> Some(build_reverse_indices(ProblemInstance(d)))]

\* ------------------------------------------------------------------------
\* precalculos.py: compute_precalcs
\* ------------------------------------------------------------------------

\* dict.get(key, default) on a dict held as a function
GetDefault(f, key, default) == IF key \in DOMAIN f THEN f[key] ELSE default

\* len(), set() and list() of a mapping value that is a number raise TypeError (lines 45-49)
AllLists(m) == \A i \in DOMAIN m : m[i].v.kind = "list"

\* lines 59-63: the counts after the loop; every member position adds one
AvailGd(groups, days, employees_of_group, avail) ==
    [g \in SeqToSet(groups) |->
        [d \in SeqToSet(days) |->
            IF g \in DOMAIN employees_of_group
            THEN Cardinality({i \in DOMAIN employees_of_group[g] :
                                d \in GetDefault(avail, employees_of_group[g][i], {})})
            ELSE 0]]

\* line 63 raises KeyError when it increments a group or a day that was not declared
AvailGdRaises(groups, days, employees_of_group, avail) ==
    \E g \in DOMAIN employees_of_group : \E i \in DOMAIN employees_of_group[g] :
        \E d \in GetDefault(avail, employees_of_group[g][i], {}) :
            g \notin SeqToSet(groups) \/ d \notin SeqToSet(days)

\* lines 68-70 for one group: the days, in declared order, whose count equals the group size
RECURSIVE CommonDaysSkipEmpty(_, _, _)
CommonDaysSkipEmpty(days, counts, size) ==
    IF days = <<>> THEN <<>>
    ELSE (IF size > 0 /\ GetDefault(counts, Head(days), 0) = size THEN <<Head(days)>> ELSE <<>>)
         \o CommonDaysSkipEmpty(Tail(days), counts, size)

RECURSIVE CommonDays(_, _, _)
CommonDays(days, counts, size) ==
    IF days = <<>> THEN <<>>
    ELSE (IF GetDefault(counts, Head(days), 0) = size THEN <<Head(days)>> ELSE <<>>)
         \o CommonDays(Tail(days), counts, size)

\* line 70 appends to common_days_group[g]: KeyError for a group that was not declared
CommonDaysRaises(groups, days, group_size, avail_gd) ==
    \E g \in DOMAIN group_size :
        /\ g \notin SeqToSet(groups)
        /\ CommonDays(days, GetDefault(avail_gd, g, <<>>), group_size[g]) # <<>>

\* line 82 and the right-hand side of line 84
UnionCountSummed(es, compat, zoneDesks) ==
    SumSeq([i \in DOMAIN es |-> Cardinality(GetDefault(compat, es[i], {}) \cap zoneDesks)])

UnionCount(es, compat, zoneDesks) ==
    Cardinality(UNION {GetDefault(compat, es[i], {}) : i \in DOMAIN es} \cap zoneDesks)

\* line 84 reads desks_in_zone[z] and writes compat_union_gz[g][z]: KeyError for a
\* declared zone without desks entry or a group that was not declared
CompatUnionRaises(groups, zones, employees_of_group, desks_in_zone) ==
    /\ DOMAIN employees_of_group # {}
    /\ zones # <<>>
    /\ \/ \E z \in SeqToSet(zones) : z \notin DOMAIN desks_in_zone
       \/ \E g \in DOMAIN employees_of_group : g \notin SeqToSet(groups)

\* lines 45-56: the set and count forms of the instance mappings
CapZone(i) == [z \in Keys(i.desks_by_zone) |-> Len(Lookup(i.desks_by_zone, z).items)]
Compat(i) ==
    [e \in Keys(i.desks_by_employee) |-> SeqToSet(Lookup(i.desks_by_employee, e).items)]
Avail(i) ==
    [e \in Keys(i.days_by_employee) |-> SeqToSet(Lookup(i.days_by_employee, e).items)]
EmployeesOfGroup(i) ==
    [g \in Keys(i.employees_by_group) |-> Lookup(i.employees_by_group, g).items]
DesksInZone(i) ==
    [z \in Keys(i.desks_by_zone) |-> SeqToSet(Lookup(i.desks_by_zone, z).items)]
GroupSize(i) ==
    [g \in Keys(i.employees_by_group) |-> Len(Lookup(i.employees_by_group, g).items)]

\* the bundle returned at lines 89-102
Precalc(i) ==
    LET compat == Compat(i)
        employees_of_group == EmployeesOfGroup(i)
        desks_in_zone == DesksInZone(i)
        group_size == GroupSize(i)
        avail_gd == AvailGd(i.groups, i.days, employees_of_group, Avail(i))
    IN  [cap_zone |-> CapZone(i),
         compat |-> compat,
         avail |-> Avail(i),
         group_of_emp |-> i.group_of_employee,
         employees_of_group |-> employees_of_group,
         zone_of_desk |-> i.zone_of_desk,
         group_size |-> group_size,
         avail_gd |-> avail_gd,
         common_days_group |->
            [g \in SeqToSet(i.groups) |->
                IF g \in DOMAIN employees_of_group
                THEN CommonDays(i.days, avail_gd[g], group_size[g])
                ELSE <<>>],
         compat_in_zone |->
            [e \in SeqToSet(i.employees) |->
                [z \in SeqToSet(i.zones) |->
                    Cardinality(GetDefault(compat, e, {})
                                \cap GetDefault(desks_in_zone, z, {}))]],
         compat_union_gz |->
            [g \in SeqToSet(i.groups) |->
                IF g \in DOMAIN employees_of_group
                THEN [z \in SeqToSet(i.zones) |->
                         UnionCount(employees_of_group[g], compat, desks_in_zone[z])]
                ELSE <<>>],
         load_day |-> [d \in SeqToSet(i.days) |-> 0]]

\* [exc, bundle]: the exception compute_precalcs raises, if any, or the bundle it returns
compute_precalcs(i) ==
    IF ~(AllLists(i.desks_by_zone) /\ AllLists(i.desks_by_employee)
         /\ AllLists(i.employees_by_group) /\ AllLists(i.days_by_employee))
    THEN [exc |-> "TypeError", bundle |-> None]
    ELSE IF \/ AvailGdRaises(i.groups, i.days, EmployeesOfGroup(i), Avail(i))
            \/ CommonDaysRaises(i.groups, i.days, GroupSize(i),
                                AvailGd(i.groups, i.days, EmployeesOfGroup(i), Avail(i)))
            \/ CompatUnionRaises(i.groups, i.zones, EmployeesOfGroup(i), DesksInZone(i))
    THEN [exc |-> "KeyError", bundle |-> None]
    ELSE [exc |-> "none", bundle |-> Some(Precalc(i))]

\* ------------------------------------------------------------------------
\* build_excel.py: count_isolated_employees
\* ------------------------------------------------------------------------

\* a null cell of the long assignment table (None / NaN)
NA == "<NA>"

NeededColumns == {"Group", "Day", "Zone", "Employee"}

\* line 36: the rows with a known zone
KnownZoneRows(rows) == SelectSeq(rows, LAMBDA r : r.Zone # NA)

\* lines 39-43: groupby(['Group','Day','Zone'], dropna=False).size(): one record per
\* distinct (Group, Day, Zone) with its number of rows; null groups and days are kept
Ctz(rows) ==
    {[Group |-> r.Group, Day |-> r.Day, Zone |-> r.Zone,
      n |-> Cardinality({i \in DOMAIN rows :
                            /\ rows[i].Group = r.Group
                            /\ rows[i].Day = r.Day
                            /\ rows[i].Zone = r.Zone})] : r \in SeqToSet(rows)}

\* lines 46-50: groupby(['Group','Day'])['Zone'].nunique(): the default dropna=True
\* leaves out the records whose Group or Day is null
ZonesPerGd(ctz) ==
    [gd \in {<<c.Group, c.Day>> : c \in {x \in ctz : x.Group # NA /\ x.Day # NA}} |->
        Cardinality({c.Zone : c \in {x \in ctz : x.Group = gd[1] /\ x.Day = gd[2]}})]

\* line 51: the (Group, Day) partitions that use more than one zone
CandAtLeastOneZone(zones_per_gd) == {gd \in DOMAIN zones_per_gd : zones_per_gd[gd] >= 1}
Cand(zones_per_gd) == {gd \in DOMAIN zones_per_gd : zones_per_gd[gd] > 1}

\* lines 60-64, on the count records of one partition
_isolados_grupo_dia(g) ==
    LET n == [c \in g |-> c.n]
        singles == {c \in g : c.n = 1}
    IN  IF \A c \in g : c \in singles
        THEN SumOver(g, n)
        ELSE SumOver(singles, n)

\* [exc, value]
count_isolated_employees(df) ==
    IF NeededColumns \ df.columns # {}
    THEN [exc |-> "ValueError", value |-> 0]
    ELSE LET ctz == Ctz(KnownZoneRows(df.rows))
             cand == Cand(ZonesPerGd(ctz))
         IN  IF cand = {} THEN [exc |-> "none", value |-> 0]
             ELSE [exc |-> "none",
                   value |-> SumOver(cand,
                       [gd \in cand |->
                           _isolados_grupo_dia({c \in ctz : c.Group = gd[1] /\ c.Day = gd[2]})])]

\* ------------------------------------------------------------------------
\* build_excel.py: build_outputs
\* ------------------------------------------------------------------------

\* a desk value that is Python's None rather than a string
PyNone == "<NoneType>"

\* str(desk)
Str(x) == IF x = PyNone THEN "None" ELSE x

\* the cell of an (employee, day) pair without triple (line 103)
AbsentCell == "None"

\* Python's order on the identifiers in use
IdAscending == <<"d1", "d2", "d9", "e1", "e2", "e9", "g1", "g2", "g9", "z1", "z2", "z9">>
IdRank(x) == CHOOSE i \in DOMAIN IdAscending : IdAscending[i] = x
StrLess(a, b) == IdRank(a) < IdRank(b)

\* sorted(seq), a stable sort by key
SortedBy(seq, key(_)) ==
    LET F[k \in 0..Len(seq)] ==
            IF k = 0 THEN <<>>
            ELSE LET x == seq[Len(seq) - k + 1]
                     before == SelectSeq(F[k - 1], LAMBDA y : StrLess(key(y), key(x)))
                     after == SelectSeq(F[k - 1], LAMBDA y : ~StrLess(key(y), key(x)))
                 IN  before \o <<x>> \o after
    IN  F[Len(seq)]

\* lines 93-95: (employee, day) -> str(desk), the last triple of a pair wins
EdToDeskByEmployee(triples) ==
    [ed \in {<<triples[k][1], triples[k][2]>> : k \in DOMAIN triples} |->
        LET last == CHOOSE k \in DOMAIN triples :
                        /\ triples[k][1] = ed[1]
                        /\ \A j \in DOMAIN triples : triples[j][1] = ed[1] => j <= k
        IN  Str(triples[last][3])]

EdToDesk(triples) ==
    [ed \in {<<triples[k][1], triples[k][2]>> : k \in DOMAIN triples} |->
        LET last == CHOOSE k \in DOMAIN triples :
                        /\ <<triples[k][1], triples[k][2]>> = ed
                        /\ \A j \in DOMAIN triples :
                              <<triples[j][1], triples[j][2]>> = ed => j <= k
        IN  Str(triples[last][3])]

\* lines 98-106: one row per employee of sorted(inst.employees), one cell per day
WideTable(i, triples) ==
    LET ed_to_desk == EdToDesk(triples)
        day_list == i.days
        sorted == SortedBy(i.employees, LAMBDA e : e)
    IN  [columns |-> <<"Employee">> \o day_list,
         rows |-> [r \in DOMAIN sorted |->
                     [Employee |-> sorted[r],
                      cells |-> [j \in DOMAIN day_list |->
                                    GetDefault(ed_to_desk, <<sorted[r], day_list[j]>>,
                                               AbsentCell)]]]]

\* lines 109-112: (Group, Day) rows sorted by Group
GroupsTable(gmd) == SortedBy(gmd, LAMBDA p : p.k)

\* lines 116-119
ValidAssignments(i, triples) ==
    LET desks_by_employee == Compat(i)
    IN  Cardinality({k \in DOMAIN triples :
                        /\ triples[k][3] # "none"
                        /\ triples[k][3] \in GetDefault(desks_by_employee, triples[k][1], {})})

\* lines 122-125
EmployeePreferences(i, schedule) ==
    LET days_by_employee == Avail(i)
    IN  SumSeq([k \in DOMAIN schedule |->
                   Cardinality(schedule[k].v
                               \cap GetDefault(days_by_employee, schedule[k].k, {}))])

\* [exc, df_assign, df_groups, df_summary]; a missing column of the long table makes
\* count_isolated_employees raise, and then nothing is returned
build_outputs(i, gmd, schedule, triples, df) ==
    LET isolated == count_isolated_employees(df)
    IN  IF isolated.exc # "none"
        THEN [exc |-> isolated.exc, df_assign |-> None, df_groups |-> None,
              df_summary |-> None]
        ELSE [exc |-> "none",
              df_assign |-> Some(WideTable(i, triples)),
              df_groups |-> Some(GroupsTable(gmd)),
              df_summary |-> Some([valid_assignments |-> ValidAssignments(i, triples),
                                   employee_preferences |-> EmployeePreferences(i, schedule),
                                   isolated_employees |-> isolated.value])]

\* ------------------------------------------------------------------------
\* Inputs: the serialized instances the loader is run on
\* ------------------------------------------------------------------------

\* longest list drawn freely (with repetitions) for a mapping value
MaxList == 2

Lists(S, n) == UNION {[1..k -> S] : k \in 0..n}

\* the sub-lists of u that keep its order
SubLists(u) ==
    {FlatMap(LAMBDA j : IF j \in S THEN <<u[j]>> ELSE <<>>, [j \in DOMAIN u |-> j]) :
        S \in SUBSET (DOMAIN u)}

\* dicts whose keys are distinct members of K, at most n of them, in any insertion order
DictsAnyOrder(K, V, n) ==
    UNION {{Dict([j \in DOMAIN ks |-> Pair(ks[j], vs[j])]) : vs \in [DOMAIN ks -> V]} :
            ks \in {s \in Lists(K, n) : Cardinality(SeqToSet(s)) = Len(s)}}

\* dicts whose keys are a sub-list of ks, in that order
DictsInOrder(ks, V) ==
    UNION {{Dict([j \in DOMAIN sub |-> Pair(sub[j], vs[j])]) : vs \in [DOMAIN sub -> V]} :
            sub \in SubLists(ks)}

ListsOf(S, n) == {List(s) : s \in Lists(S, n)}
SubListsOf(u) == {List(s) : s \in SubLists(u)}

BaseInstance ==
    [Employees |-> List(<<"e2", "e1">>),
     Desks |-> List(<<"d1", "d2">>),
     Days |-> List(<<"L", "M">>),
     Groups |-> List(<<"g1", "g2">>),
     Zones |-> List(<<"z1", "z2">>),
     Desks_Z |-> Dict(<<Pair("z1", List(<<"d1">>)), Pair("z2", List(<<"d2">>))>>),
     Desks_E |-> Dict(<<Pair("e1", List(<<"d1", "d2">>)), Pair("e2", List(<<"d2">>))>>),
     Employees_G |-> Dict(<<Pair("g1", List(<<"e1", "e2">>))>>),
     Days_E |-> Dict(<<Pair("e1", List(<<"L">>)), Pair("e2", List(<<"L", "M">>))>>)]

With(d, key, value) == [d EXCEPT ![key] = value]
Without(d, K) == [key \in (DOMAIN d) \ K |-> d[key]]

\* well-typed instances with referential defects around Desks_Z
ReferentialInputs ==
    {With(With(With(BaseInstance, "Desks_Z", dz), "Employees", es), "Employees_G", eg) :
        dz \in DictsAnyOrder({"z1", "z2", "z9"}, ListsOf({"d1", "d9"}, MaxList), 2),
        es \in {List(<<"e2", "e1">>), List(<<"e1", "e1">>)},
        eg \in {Dict(<<Pair("g1", List(<<"e1", "e2">>))>>),
                Dict(<<Pair("g1", List(<<"e1">>)), Pair("g2", List(<<"e1", "e9">>))>>),
                Dict(<<Pair("g9", List(<<>>))>>)}}

\* instances with values of the wrong type or shape, alone or beside referential defects
ShapeInputs ==
    {With(With(With(With(With(BaseInstance, "Employees", es), "Zones", zs),
                    "Desks_Z", dz), "Days_E", dy), "Employees_G", eg) :
        es \in {List(<<"e2", "e1">>), List(<<"e1", PyInt>>), Number, List(<<"e1", "e1">>)},
        zs \in {List(<<"z1", "z2">>), List(<<PyInt>>)},
        dz \in {Dict(<<Pair("z1", List(<<"d1">>)), Pair("z2", List(<<"d2">>))>>),
                Dict(<<Pair("z1", List(<<"d1">>)), Pair("z2", List(<<"d1">>))>>),
                Number,
                Dict(<<Pair("z1", Number)>>),
                Dict(<<Pair("z1", List(<<"d1", PyInt>>))>>),
                Dict(<<Pair(PyInt, List(<<"d1">>))>>)},
        dy \in {Dict(<<Pair("e1", List(<<"L">>))>>),
                Dict(<<Pair("e1", List(<<"X">>))>>),
                Number},
        eg \in {Dict(<<Pair("g1", List(<<"e1", "e2">>))>>),
                Dict(<<Pair("g1", List(<<"e1">>)), Pair("g2", List(<<"e1">>))>>)}}

\* instances with required keys missing
MissingKeyInputs ==
    {Without(d, K) :
        d \in {BaseInstance,
               With(BaseInstance, "Zones", List(<<PyInt>>)),
               With(BaseInstance, "Desks_Z", Number),
               With(BaseInstance, "Desks_Z",
                    Dict(<<Pair("z1", List(<<"d1">>)), Pair("z2", List(<<"d1">>))>>))},
        K \in (SUBSET SeqToSet(REQUIRED_KEYS)) \ {{}}}

\* instances that vary who is in which group and who is available when
AvailabilityInputs ==
    {With(With(BaseInstance, "Employees_G", eg), "Days_E", dy) :
        eg \in DictsInOrder(<<"g1", "g2">>, ListsOf({"e1", "e2"}, MaxList)),
        dy \in DictsInOrder(<<"e1", "e2">>, SubListsOf(<<"L", "M">>))}

\* instances that vary which desks lie in which zone and suit which employee
CompatibilityInputs ==
    {With(With(With(BaseInstance, "Employees_G", eg), "Desks_E", de), "Desks_Z", dz) :
        eg \in {Dict(<<Pair("g1", List(<<"e1", "e2">>))>>),
                Dict(<<Pair("g1", List(<<"e1">>)), Pair("g2", List(<<"e2">>))>>),
                Dict(<<Pair("g1", List(<<>>)), Pair("g2", List(<<"e2", "e1">>))>>),
                Dict(<<Pair("g2", List(<<"e1">>))>>),
                Dict(<<>>)},
        de \in DictsInOrder(<<"e1", "e2">>, SubListsOf(<<"d1", "d2">>)),
        dz \in DictsInOrder(<<"z1", "z2">>, SubListsOf(<<"d1", "d2">>))}

Inputs ==
    {[data |-> d, strict |-> s] :
        d \in ReferentialInputs \cup ShapeInputs \cup MissingKeyInputs, s \in BOOLEAN}
    \cup {[data |-> d, strict |-> TRUE] : d \in AvailabilityInputs \cup CompatibilityInputs}

\* ------------------------------------------------------------------------
\* The loading pipeline
\* ------------------------------------------------------------------------

Unused == <<>>

Init ==
    /\ \E in \in Inputs : data = in.data /\ strict = in.strict
    /\ pc = "start"
    /\ errors = <<>>
    /\ exc = NoExc
    /\ inst = None
    /\ pre = None
    /\ assignments = Unused
    /\ df_assign = Unused
    /\ group_meeting_day = Unused
    /\ schedule_by_employee = Unused
    /\ out = Unused

reportVars == <<assignments, df_assign, group_meeting_day, schedule_by_employee, out>>

\* a caller validates the parsed instance on its own
ValidateInstanceDict ==
    /\ pc = "start"
    /\ LET v == validate_instance_dict(data)
       IN  /\ errors' = v.errors
           /\ exc' = (IF v.exc = "none" THEN NoExc
                      ELSE Exc(v.exc, "validate_instance_dict", <<>>))
           /\ pc' = IF v.exc = "none" THEN "validated" ELSE "raised"
    /\ UNCHANGED <<data, strict, inst, pre, reportVars>>

\* load_instance(data, strict=strict)
LoadInstance ==
    /\ pc \in {"start", "validated"}
    /\ LET r == load_instance(data, strict)
       IN  /\ errors' = r.errors
           /\ exc' = r.exc
           /\ inst' = r.inst
           /\ pc' = IF r.exc = NoExc THEN "loaded" ELSE "raised"
    /\ UNCHANGED <<data, strict, pre, reportVars>>

\* compute_precalcs(inst)
ComputePrecalcs ==
    /\ pc = "loaded"
    /\ LET r == compute_precalcs(inst[1])
       IN  /\ pre' = r.bundle
           /\ exc' = (IF r.exc = "none" THEN NoExc ELSE Exc(r.exc, "compute_precalcs", <<>>))
           /\ pc' = IF r.exc = "none" THEN "precalc" ELSE "raised"
    /\ UNCHANGED <<data, strict, errors, inst, reportVars>>

Next == ValidateInstanceDict \/ LoadInstance \/ ComputePrecalcs

Spec == Init /\ [][Next]_vars

\* ------------------------------------------------------------------------
\* Inputs of the report assembler: what the solver and its caller hand over
\* ------------------------------------------------------------------------

\* most triples in an assignment list, most rows in a long assignment table
MaxTriples == 2
MaxRows == 4

ReportInstance == load_instance(BaseInstance, TRUE).inst[1]

Triples ==
    {<<e, d, desk>> : e \in {"e1", "e2", "e9"}, d \in {"L", "M"},
                      desk \in {"d1", "d2", "none", PyNone}}

Row(g, d, z, e) == [Group |-> g, Day |-> d, Zone |-> z, Employee |-> e]
Frame(rows) == [columns |-> NeededColumns, rows |-> rows]

\* the rows a long table may hold, in a fixed order
RowUniverse ==
    FlatMap(LAMBDA g :
        FlatMap(LAMBDA d :
            FlatMap(LAMBDA z :
                FlatMap(LAMBDA e : <<Row(g, d, z, e)>>, <<"e1", "e2">>),
                <<"z1", "z2", NA>>),
            <<"L", "M">>),
        <<"g1", NA>>)

\* the non-decreasing index sequences of length at most n over 1..m
RECURSIVE NonDecreasing(_, _)
NonDecreasing(n, m) ==
    IF n = 0 THEN {<<>>}
    ELSE LET shorter == NonDecreasing(n - 1, m)
         IN  shorter \cup
             UNION {{Append(s, x) : x \in (IF s = <<>> THEN 1 ELSE s[Len(s)])..m} :
                      s \in {t \in shorter : Len(t) = n - 1}}

\* long tables of at most n rows; the count groups the rows and does not depend on
\* their order, so one order per multiset of rows is drawn
Frames(n) ==
    {Frame([j \in DOMAIN s |-> RowUniverse[s[j]]]) : s \in NonDecreasing(n, Len(RowUniverse))}

FixedTriples == <<(<<"e1", "L", "d1">>), (<<"e2", "L", "d2">>)>>
FixedFrame == Frame(<<Row("g1", "L", "z1", "e1"), Row("g1", "L", "z2", "e2")>>)
FixedMeetingDays == <<Pair("g2", "L"), Pair("g1", "M")>>
FixedSchedule == <<Pair("e1", {"L", "M"}), Pair("e2", {"M"})>>

ReportInputs ==
    {[assignments |-> a, df_assign |-> FixedFrame,
      group_meeting_day |-> FixedMeetingDays, schedule_by_employee |-> FixedSchedule] :
        a \in Lists(Triples, MaxTriples)}
    \cup
    {[assignments |-> FixedTriples, df_assign |-> f,
      group_meeting_day |-> FixedMeetingDays, schedule_by_employee |-> FixedSchedule] :
        f \in Frames(MaxRows)
              \cup {[columns |-> NeededColumns \ {"Zone"}, rows |-> <<>>],
                    [columns |-> {}, rows |-> <<>>]}}
    \cup
    {[assignments |-> FixedTriples, df_assign |-> FixedFrame,
      group_meeting_day |-> g, schedule_by_employee |-> sch] :
        g \in {<<>>, <<Pair("g1", "L")>>, FixedMeetingDays},
        sch \in {<<>>, <<Pair("e9", {"L"})>>, <<Pair("e1", {"M"}), Pair("e2", {"L", "M"})>>,
                 FixedSchedule}}

\* ------------------------------------------------------------------------
\* The report assembler
\* ------------------------------------------------------------------------

InitOut ==
    /\ pc = "solved"
    /\ data = BaseInstance
    /\ strict = TRUE
    /\ errors = <<>>
    /\ exc = NoExc
    /\ inst = Some(ReportInstance)
    /\ pre = Some(Precalc(ReportInstance))
    /\ \E in \in ReportInputs :
          /\ assignments = in.assignments
          /\ df_assign = in.df_assign
          /\ group_meeting_day = in.group_meeting_day
          /\ schedule_by_employee = in.schedule_by_employee
    /\ out = None

\* build_outputs(inst, pre, group_meeting_day, schedule_by_employee, assignments, df_assign)
BuildOutputs ==
    /\ pc = "solved"
    /\ LET r == build_outputs(inst[1], group_meeting_day, schedule_by_employee,
                              assignments, df_assign)
       IN  /\ out' = (IF r.exc = "none" THEN Some(r) ELSE None)
           /\ exc' = (IF r.exc = "none" THEN NoExc ELSE Exc(r.exc, "count_isolated_employees", <<>>))
           /\ pc' = IF r.exc = "none" THEN "built" ELSE "raised"
    /\ UNCHANGED <<data, strict, errors, inst, pre, assignments, df_assign,
                   group_meeting_day, schedule_by_employee>>

NextOut == BuildOutputs

SpecOut == InitOut /\ [][NextOut]_vars

\* ------------------------------------------------------------------------
\* The core from load to report: load_instance, summary, compute_precalcs,
\* build_outputs on one instance
\* ------------------------------------------------------------------------

\* the instances the core is run on: any loader mode for those with referential
\* defects, the strict loader for the others
CoreInputs ==
    {[data |-> d, strict |-> s] : d \in ReferentialInputs, s \in BOOLEAN}
    \cup {[data |-> d, strict |-> TRUE] : d \in CompatibilityInputs}

\* what the solver hands to build_outputs for the instance
CoreReportInputs ==
    {[assignments |-> FixedTriples, df_assign |-> FixedFrame,
      group_meeting_day |-> FixedMeetingDays, schedule_by_employee |-> FixedSchedule],
     [assignments |-> <<(<<"e1", "M", "none">>)>>, df_assign |-> Frame(<<>>),
      group_meeting_day |-> <<>>, schedule_by_employee |-> <<>>]}

InitCore ==
    /\ \E in \in CoreInputs : data = in.data /\ strict = in.strict
    /\ pc = "start"
    /\ errors = <<>>
    /\ exc = NoExc
    /\ inst = None
    /\ pre = None
    /\ assignments = Unused
    /\ df_assign = Unused
    /\ group_meeting_day = Unused
    /\ schedule_by_employee = Unused
    /\ out = Unused

\* inst.summary(), at any time once the instance is loaded
Summary ==
    /\ inst # None
    /\ inst' = Some(summary(inst[1]))
    /\ UNCHANGED <<pc, data, strict, errors, exc, pre, reportVars>>

\* the solver finishes and its caller holds the arguments of build_outputs
Solve ==
    /\ pc = "precalc"
    /\ \E in \in CoreReportInputs :
          /\ assignments' = in.assignments
          /\ df_assign' = in.df_assign
          /\ group_meeting_day' = in.group_meeting_day
          /\ schedule_by_employee' = in.schedule_by_employee
    /\ pc' = "solved"
    /\ UNCHANGED <<data, strict, errors, exc, inst, pre, out>>

NextCore == LoadInstance \/ Summary \/ ComputePrecalcs \/ Solve \/ BuildOutputs

SpecCore == InitCore /\ [][NextCore]_vars

\* ------------------------------------------------------------------------
\* Properties of the validator and the loader
\* ------------------------------------------------------------------------

Validated == pc = "validated"
MissingKeys(d) == SeqToSet(REQUIRED_KEYS) \ DOMAIN d
AllKeysPresent(d) == MissingKeys(d) = {}
KeyIndex(key) == CHOOSE i \in DOMAIN REQUIRED_KEYS : REQUIRED_KEYS[i] = key

IllTypedIdentity(d, key) ==
    d[key].kind # "list" \/ PyInt \in SeqToSet(d[key].items)
DuplicatedIdentity(d, key) ==
    \E i, j \in DOMAIN d[key].items : i # j /\ d[key].items[i] = d[key].items[j]
NotADict(d, key) == d[key].kind # "dict"
IllShapedDict(d, key) ==
    /\ d[key].kind = "dict"
    /\ \E i \in DOMAIN d[key].items :
          \/ d[key].items[i].k = PyInt
          \/ d[key].items[i].v.kind # "list"
          \/ PyInt \in SeqToSet(d[key].items[i].v.items)
TypeShapeDefect(d) ==
    \/ \E key \in SeqToSet(IdentityKeys) : IllTypedIdentity(d, key)
    \/ \E key \in SeqToSet(MappingKeys) : NotADict(d, key) \/ IllShapedDict(d, key)
NoDuplicateIdentity(d) == \A key \in SeqToSet(IdentityKeys) : ~DuplicatedIdentity(d, key)

\* the places (entry, position) at which x is listed in a mapping
Places(m, x) ==
    {pl \in UNION {{<<i, j>> : j \in DOMAIN m[i].v.items} : i \in DOMAIN m} :
        m[pl[1]].v.items[pl[2]] = x}
Listed(m) == UNION {SeqToSet(m[i].v.items) : i \in DOMAIN m}
UnderTwoOwners(m, x) == \E p, q \in Places(m, x) : p[1] # q[1]
ListedTwice(m, x) == Cardinality(Places(m, x)) >= 2

MultipleZonesMessage(x) == <<"desk appears in multiple zones", x>>

\* C6 as stated: with a required key missing, the validator returns a single-item
\* list holding the missing-key message.
C6_SingleItemMissingKeyList ==
    (Validated /\ ~AllKeysPresent(data))
        => (Len(errors) = 1 /\ errors[1][1] = "Missing key")

\* C6 amended: with required keys missing, the validator returns exactly one
\* missing-key message per missing key, in REQUIRED_KEYS order, and nothing else;
\* it runs no type or referential check, so it never raises either.
C6_OneMessagePerMissingKey ==
    ~AllKeysPresent(data) =>
        /\ ~(pc = "raised" /\ exc.at = "validate_instance_dict")
        /\ Validated =>
            /\ Len(errors) = Cardinality(MissingKeys(data))
            /\ \A i \in DOMAIN errors :
                  /\ Len(errors[i]) = 2
                  /\ errors[i][1] = "Missing key"
                  /\ errors[i][2] \in MissingKeys(data)
            /\ \A i, j \in DOMAIN errors :
                  i < j => KeyIndex(errors[i][2]) < KeyIndex(errors[j][2])

\* two keys are missing and a remaining value is ill-typed; the validator has returned
C6_Witness ==
    /\ Validated
    /\ Cardinality(MissingKeys(data)) = 2
    /\ "Zones" \in DOMAIN data
    /\ data["Zones"] = List(<<PyInt>>)

ReferentialDefects(d) ==
    {MultipleZonesMessage(x) : x \in {y \in Listed(d["Desks_Z"].items) :
                                        UnderTwoOwners(d["Desks_Z"].items, y)}}
    \cup {<<"employee appears in multiple groups", x>> :
            x \in {y \in Listed(d["Employees_G"].items) :
                     UnderTwoOwners(d["Employees_G"].items, y)}}
    \cup {<<"day in Days_E not declared", d["Days_E"].items[pl[1]].v.items[pl[2]],
            d["Days_E"].items[pl[1]].k>> :
            pl \in {q \in UNION {Places(d["Days_E"].items, y) :
                                    y \in Listed(d["Days_E"].items)} :
                      d["Days_E"].items[q[1]].v.items[q[2]]
                          \notin SeqToSet(d["Days"].items)}}

ShapeMessages ==
    {"must be a list[str]", "values must be unique", "must be a dict",
     "must map str -> list[str]"}

\* C5 as stated: when the instance holds a type or shape error, the validator goes
\* on through all remaining checks, so every referential defect of the same
\* instance is in the returned list as well.
C5_ReferentialReportedBesideTypeError ==
    (Validated /\ AllKeysPresent(data) /\ TypeShapeDefect(data)) =>
        \A m \in ReferentialDefects(data) : m \in SeqToSet(errors)

\* C5 amended: on an instance with all nine keys and a type or shape error, the
\* validator raises TypeError when an identity value is not a sized collection;
\* otherwise it records one message for every ill-typed identity set, every identity
\* set with duplicates and every ill-shaped mapping, and returns before the
\* referential checks: the list holds no referential message.
C5_ShapeErrorsStopBeforeReferential ==
    (AllKeysPresent(data) /\ TypeShapeDefect(data)) =>
        /\ (UniqueRaises(data) /\ pc # "start") =>
              (pc = "raised" /\ exc.type = "TypeError"
                  /\ exc.at = "validate_instance_dict")
        /\ Validated =>
              /\ ~UniqueRaises(data)
              /\ \A key \in SeqToSet(IdentityKeys) :
                    /\ IllTypedIdentity(data, key)
                          <=> <<"must be a list[str]", key>> \in SeqToSet(errors)
                    /\ DuplicatedIdentity(data, key)
                          <=> <<"values must be unique", key>> \in SeqToSet(errors)
              /\ \A key \in SeqToSet(MappingKeys) :
                    /\ NotADict(data, key)
                          <=> <<"must be a dict", key>> \in SeqToSet(errors)
                    /\ IllShapedDict(data, key)
                          <=> <<"must map str -> list[str]", key>> \in SeqToSet(errors)
              /\ \A i \in DOMAIN errors : errors[i][1] \in ShapeMessages

\* an ill-typed identity set beside a desk under two zones; the validator has returned
\* two shape messages
C5_Witness ==
    /\ Validated
    /\ AllKeysPresent(data)
    /\ IllTypedIdentity(data, "Employees")
    /\ data["Desks_Z"].kind = "dict" /\ ~IllShapedDict(data, "Desks_Z")
    /\ ReferentialDefects(data) # {}
    /\ Len(errors) >= 2

\* C7: a strict load of an instance whose validation list is non-empty raises,
\* builds no instance model, and the exception carries every validation message in
\* the validator's order.
C7_StrictLoadCarriesEveryMessage ==
    LET v == validate_instance_dict(data)
    IN  (pc \notin {"start", "validated"} /\ strict /\ v.exc = "none" /\ v.errors # <<>>) =>
            /\ pc = "raised"
            /\ exc.type = "ValueError"
            /\ inst = None /\ pre = None
            /\ Len(exc.message) = Len(v.errors) + 1
            /\ \A i \in DOMAIN v.errors : exc.message[i + 1] = v.errors[i]

\* a strict load has raised with three validation messages of different kinds
C7_Witness ==
    /\ pc = "raised" /\ strict
    /\ exc.type = "ValueError"
    /\ Len(exc.message) = 4
    /\ exc.message[2][1] # exc.message[3][1]

\* ------------------------------------------------------------------------
\* Properties of the derived indices
\* ------------------------------------------------------------------------

BundleReturned == pc = "precalc" /\ pre # None

\* the members the instance lists for a group, none when the group has no entry
MembersOf(i, g) ==
    IF g \in Keys(i.employees_by_group) THEN Lookup(i.employees_by_group, g).items ELSE <<>>

\* C1 as stated: common_days_group[g] is exactly the set of declared days d with
\* avail_gd[g][d] = group_size[g], and it is empty whenever g has zero members,
\* a group mapped to an empty member list included.
C1_CommonDaysEmptyForEmptyGroup ==
    BundleReturned =>
        LET b == pre[1] IN
        \A g \in SeqToSet(inst[1].groups) :
            /\ g \in DOMAIN b.group_size =>
                  SeqToSet(b.common_days_group[g])
                      = {d \in SeqToSet(inst[1].days) : b.avail_gd[g][d] = b.group_size[g]}
            /\ MembersOf(inst[1], g) = <<>> => b.common_days_group[g] = <<>>

\* C1 amended: for a group with an entry in Employees_G, common_days_group[g] is
\* exactly the declared days d, in declared order, with avail_gd[g][d] =
\* group_size[g]; hence a group mapped to an empty member list gets every declared
\* day.  A declared group without entry has no group_size and no common day.
C1_CommonDaysWhereCountEqualsSize ==
    BundleReturned =>
        LET b == pre[1] IN
        \A g \in SeqToSet(inst[1].groups) :
            IF g \in DOMAIN b.group_size
            THEN /\ b.common_days_group[g]
                      = SelectSeq(inst[1].days,
                                  LAMBDA d : b.avail_gd[g][d] = b.group_size[g])
                 /\ b.group_size[g] = 0 => b.common_days_group[g] = inst[1].days
            ELSE b.common_days_group[g] = <<>>

\* one group is mapped to no member and has both declared days in common; the other
\* has two members who share one of the two days
C1_Witness ==
    /\ BundleReturned
    /\ inst[1].days = <<"L", "M">>
    /\ "g1" \in DOMAIN pre[1].group_size /\ pre[1].group_size["g1"] = 0
    /\ pre[1].common_days_group["g1"] = <<"L", "M">>
    /\ "g2" \in DOMAIN pre[1].group_size /\ pre[1].group_size["g2"] = 2
    /\ pre[1].common_days_group["g2"] = <<"M">>

Built == pc = "built" /\ out # None

\* the rows of the long table with a known zone, and what they say of a partition
Occupying(df) == {r \in SeqToSet(df.rows) : r.Zone # NA}
Occupants(df, g, d, z) ==
    Cardinality({i \in DOMAIN df.rows :
                    df.rows[i].Group = g /\ df.rows[i].Day = d /\ df.rows[i].Zone = z})
\* a partition is a known (Group, Day): a row without group or day is in no partition
PartitionsOf(df) ==
    {<<r.Group, r.Day>> : r \in {x \in Occupying(df) : x.Group # NA /\ x.Day # NA}}
ZonesUsed(df, gd) ==
    {r.Zone : r \in {x \in Occupying(df) : x.Group = gd[1] /\ x.Day = gd[2]}}
IsolatedIn(df, gd) ==
    LET zs == ZonesUsed(df, gd)
        occ == [z \in zs |-> Occupants(df, gd[1], gd[2], z)]
    IN  IF Cardinality(zs) <= 1 THEN 0
        ELSE IF \A z \in zs : occ[z] = 1 THEN SumOver(zs, occ)
        ELSE Cardinality({z \in zs : occ[z] = 1})

TriplesOf(e, d) == {k \in DOMAIN assignments : assignments[k][1] = e /\ assignments[k][2] = d}
\* a desk that says "not assigned that day"
SentinelDesk(desk) == desk \in {"none", PyNone}
CellOf(table, e, d) ==
    LET r == CHOOSE k \in DOMAIN table.rows : table.rows[k].Employee = e
        j == CHOOSE k \in DOMAIN inst[1].days : inst[1].days[k] = d
    IN  table.rows[r].cells[j]

\* C8 as stated: the wide table has one row per declared employee in ascending
\* order and one column per declared day in declared order; a cell holds the desk
\* of the last triple of its pair whose desk is not the sentinel, and the absence
\* sentinel in every other case, also when the only triple carries the sentinel.
C8_CellIsDeskOrAbsenceSentinel ==
    Built =>
        LET t == out[1].df_assign[1] IN
        /\ t.columns = <<"Employee">> \o inst[1].days
        /\ {t.rows[k].Employee : k \in DOMAIN t.rows} = SeqToSet(inst[1].employees)
        /\ Len(t.rows) = Cardinality(SeqToSet(inst[1].employees))
        /\ \A k \in DOMAIN t.rows : k > 1 => StrLess(t.rows[k - 1].Employee, t.rows[k].Employee)
        /\ \A e \in SeqToSet(inst[1].employees) : \A d \in SeqToSet(inst[1].days) :
              LET real == {k \in TriplesOf(e, d) : ~SentinelDesk(assignments[k][3])}
              IN  IF real # {}
                  THEN CellOf(t, e, d)
                          = assignments[CHOOSE k \in real : \A j \in real : j <= k][3]
                  ELSE CellOf(t, e, d) = AbsentCell

\* the triples a wide table yields when read back: every cell that is not the
\* absence sentinel
ReadBack(table) ==
    {<<table.rows[r].Employee, table.columns[j + 1], table.rows[r].cells[j]>> :
        r \in DOMAIN table.rows, j \in 1..(Len(table.columns) - 1)} \ 
    {<<table.rows[r].Employee, table.columns[j + 1], AbsentCell>> :
        r \in DOMAIN table.rows, j \in 1..(Len(table.columns) - 1)}

\* the triples that assign a desk, as the table writes a desk
AssignedTriples ==
    {<<assignments[k][1], assignments[k][2], Str(assignments[k][3])>> : k \in DOMAIN assignments}
    \ {<<assignments[k][1], assignments[k][2], AbsentCell>> : k \in DOMAIN assignments}

\* C9 as stated: for any triples, reading the wide table back gives the original
\* triples exactly, every pair without triple showing the absence sentinel.
C9_RoundTripAnyTriples ==
    Built =>
        /\ ReadBack(out[1].df_assign[1]) = AssignedTriples
        /\ \A e \in SeqToSet(inst[1].employees) : \A d \in SeqToSet(inst[1].days) :
              TriplesOf(e, d) = {} => CellOf(out[1].df_assign[1], e, d) = AbsentCell

\* every triple names a declared employee and a declared day, and no pair has two
\* triples with different desks
TriplesWellFormed ==
    /\ \A k \in DOMAIN assignments :
          /\ assignments[k][1] \in SeqToSet(inst[1].employees)
          /\ assignments[k][2] \in SeqToSet(inst[1].days)
    /\ \A k, j \in DOMAIN assignments :
          (assignments[k][1] = assignments[j][1] /\ assignments[k][2] = assignments[j][2])
              => Str(assignments[k][3]) = Str(assignments[j][3])

\* C9 amended: for triples that name declared employees and declared days and give
\* no pair two different desks, reading the wide table back gives the original
\* triples exactly, every pair without triple showing the absence sentinel.
C9_RoundTripWellFormedTriples ==
    (Built /\ TriplesWellFormed) =>
        /\ ReadBack(out[1].df_assign[1]) = AssignedTriples
        /\ \A e \in SeqToSet(inst[1].employees) : \A d \in SeqToSet(inst[1].days) :
              TriplesOf(e, d) = {} => CellOf(out[1].df_assign[1], e, d) = AbsentCell

\* two triples of one employee on two days with two desks, read back from the table
C9_Witness ==
    /\ Built /\ TriplesWellFormed
    /\ assignments = <<(<<"e1", "M", "d2">>), (<<"e1", "L", "d1">>)>>
    /\ ReadBack(out[1].df_assign[1]) = {<<"e1", "M", "d2">>, <<"e1", "L", "d1">>}

\* C10 as stated: the "Isolated employees" counter is the number of employee-days on
\* which the employee is the only member of the group attending that day.
C10_IsolatedIsAloneInGroup ==
    Built =>
        out[1].df_summary[1].isolated_employees
            = Cardinality({<<r.Employee, r.Day>> :
                  r \in {x \in SeqToSet(df_assign.rows) :
                            /\ x.Group # NA
                            /\ \A y \in SeqToSet(df_assign.rows) :
                                  (y.Group = x.Group /\ y.Day = x.Day)
                                      => y.Employee = x.Employee}})

\* ------------------------------------------------------------------------
\* Properties of the loaded instance over the core's lifetime
\* ------------------------------------------------------------------------

\* the instance was loaded from data on which the validator found nothing
LoadedClean == inst # None /\ errors = <<>>

\* x is listed under owner in the mapping m
AppearsUnder(m, owner, x) ==
    \E p \in DOMAIN m : m[p].k = owner /\ x \in SeqToSet(m[p].v.items)

\* index[x] == owner for exactly the x listed under owner in m
Mirrors(index, m) ==
    \A x \in DOMAIN index \cup UNION {SeqToSet(m[p].v.items) : p \in DOMAIN m} :
        \A owner \in Keys(m) \cup {index[y] : y \in DOMAIN index} :
            (x \in DOMAIN index /\ index[x] = owner) <=> AppearsUnder(m, owner, x)

IndicesMirror(i) ==
    /\ Mirrors(i.zone_of_desk, i.desks_by_zone)
    /\ Mirrors(i.group_of_employee, i.employees_by_group)

\* C11: for every instance that passes validation, the instance load_instance returns
\* has zone_of_desk[d] == z iff d appears in desks_by_zone[z], and group_of_employee[e] == g
\* iff e appears in employees_by_group[g]; and no later step of the core (summary,
\* compute_precalcs, build_outputs) changes the two reverse indices
C11_ReverseIndicesMirrorAndStay ==
    /\ [](LoadedClean => IndicesMirror(inst[1]))
    /\ [][LoadedClean =>
            /\ inst' # None
            /\ inst'[1].zone_of_desk = inst[1].zone_of_desk
            /\ inst'[1].group_of_employee = inst[1].group_of_employee]_vars

\* a clean instance with two desks in zones and two employees in groups, after
\* summary, compute_precalcs and build_outputs have all run on it
C11_Witness ==
    /\ LoadedClean
    /\ pc = "built"
    /\ inst[1]._summary # None
    /\ Cardinality(DOMAIN inst[1].zone_of_desk) = 2
    /\ Cardinality(DOMAIN inst[1].group_of_employee) = 2
    /\ IndicesMirror(inst[1])

\* ------------------------------------------------------------------------
\* Totality of compute_precalcs
\* ------------------------------------------------------------------------

\* compute_precalcs has been called on the loaded instance and has returned or raised
PrecalcsCalled == inst # None /\ pc \in {"precalc", "raised"}

\* table[a][b] exists for every a of as and b of bs
Dense(table, as, bs) ==
    \A a \in SeqToSet(as) :
        /\ a \in DOMAIN table
        /\ \A b \in SeqToSet(bs) : b \in DOMAIN table[a]

\* C12: on every instance for which the validator returns an empty error list (a declared
\* zone without entry in Desks_Z or a declared group without entry in Employees_G
\* included), compute_precalcs returns a bundle without raising, and in the bundle
\* compat_in_zone has an entry for every declared (employee, zone) pair and
\* compat_union_gz one for every declared (group, zone) pair
C12_PrecalcsTotalAndDense ==
    (PrecalcsCalled /\ errors = <<>>) =>
        /\ pc = "precalc"
        /\ exc = NoExc
        /\ pre # None
        /\ Dense(pre[1].compat_in_zone, inst[1].employees, inst[1].zones)
        /\ Dense(pre[1].compat_union_gz, inst[1].groups, inst[1].zones)

====
